---- MODULE Spec2Model ----
(***************************************************************************)
(* Model of src/main.py: the dormitory bed selection pipeline              *)
(*   get_personal_info -> get_selection_params -> get_and_display_rooms    *)
(*   -> select_bed, driven by main.                                        *)
(*                                                                         *)
(* Python values are modelled as strings; None is the reserved string      *)
(* NoneV, lists are sequences, dicts are records.  A dict key that the     *)
(* code reads with .get(key, []) is modelled by its list, the missing key  *)
(* being the empty list.  Page texts and typed lines are sequences of      *)
(* tokens (one token per character, the label being a single token).       *)
(***************************************************************************)
EXTENDS Integers, Sequences, FiniteSets, TLC

VARIABLES
    pc,                 \* position of main: the next stage to run, or "done"
    outcome,            \* how the run ended ("running" until then)
    reqs,               \* the network requests issued so far, in order
    replies,            \* what each of them got back, in the same order
    name, college,      \* main: result of get_personal_info
    token, sub_id, building_id,   \* main: result of get_selection_params
    floor_select_list,  \* get_and_display_rooms: data.floorSelect
    floor_idx,          \* get_and_display_rooms: position of the for loop
    all_rooms_data,     \* get_and_display_rooms: the accumulator
    rooms_ret,          \* main: value returned by get_and_display_rooms
    printed,            \* the last message get_and_display_rooms printed
    offered,            \* the (room, bed) lines get_and_display_rooms printed
    target_room_name, target_bed_name,   \* select_bed: the stripped inputs
    post_data,          \* select_bed: the reservation form
    confirm,            \* select_bed: the normalised answer
    result              \* select_bed: what the reservation response was mapped to

vars == <<pc, outcome, reqs, replies, name, college, token, sub_id, building_id,
          floor_select_list, floor_idx, all_rooms_data, rooms_ret, printed,
          offered, target_room_name, target_bed_name, post_data, confirm, result>>

----------------------------------------------------------------------------
(* Bounds *)

\* longest floorSelect list a floor-list response carries
MaxFloors == 2

----------------------------------------------------------------------------
(* Python values *)

NoneV == "<None>"

\* Python truthiness of a str-or-None value
Truthy(v) == v # NoneV /\ v # ""

\* str(v) as used by the f-strings that build the URLs
Fmt(v) == IF v = NoneV THEN "None" ELSE v

\* all([...]) over str-or-None values
AllTruthy(vs) == \A i \in 1..Len(vs) : Truthy(vs[i])

----------------------------------------------------------------------------
(* Text: sequences of tokens *)

SP == " "
LABEL == "LABEL:"        \* the label the college field is prefixed with

RECURSIVE LStrip(_)
LStrip(s) == IF s # <<>> /\ Head(s) = SP THEN LStrip(Tail(s)) ELSE s

RECURSIVE RStrip(_)
RStrip(s) ==
    IF s # <<>> /\ s[Len(s)] = SP THEN RStrip(SubSeq(s, 1, Len(s) - 1)) ELSE s

\* str.strip()
Strip(s) == RStrip(LStrip(s))

\* the college text with the label left in
RemoveLabelKept(s) == s

\* str.replace(LABEL, ''): every occurrence is removed
RemoveLabel(s) == SelectSeq(s, LAMBDA t : t # LABEL)

LowerTok(t) == CASE t = "Y" -> "y" [] t = "N" -> "n" [] OTHER -> t

\* str.lower()
Lower(s) == [i \in 1..Len(s) |-> LowerTok(s[i])]

\* the string a token sequence spells
RECURSIVE Join(_)
Join(s) == IF s = <<>> THEN "" ELSE Head(s) \o Join(Tail(s))

----------------------------------------------------------------------------
(* Requests *)

NoForm == [roomId |-> NoneV, bedId |-> NoneV, floorId |-> NoneV, token |-> NoneV,
           buildingId |-> NoneV, studentName |-> NoneV, deptName |-> NoneV,
           subId |-> NoneV]

Req(k, sn, dn, bld, sub, fl, form) ==
    [kind |-> k, studentName |-> sn, deptName |-> dn, buildingId |-> bld,
     subId |-> sub, floorId |-> fl, data |-> form]

ProfileGet == Req("profile_get", NoneV, NoneV, NoneV, NoneV, NoneV, NoForm)
SelectGet(sn, dn) == Req("select_get", sn, dn, NoneV, NoneV, NoneV, NoForm)
FloorListPost(bld, sub) == Req("floor_list_post", NoneV, NoneV, Fmt(bld), Fmt(sub), "", NoForm)
FloorPost(bld, sub, fl) == Req("floor_post", NoneV, NoneV, Fmt(bld), Fmt(sub), Fmt(fl), NoForm)
SavePost(form) == Req("save_post", NoneV, NoneV, NoneV, NoneV, NoneV, form)

----------------------------------------------------------------------------
(* What the remote side can answer *)

\* texts of the first and of the second <p> of the profile container
NameTexts == { <<>>, <<SP, "A", SP>> }
CollegeTexts == { <<LABEL>>, <<LABEL, SP, "C">>, <<"D", LABEL>> }

\* the <p> lists the container can hold: none, one, two or three
PLists ==
    { <<>> } \cup { <<n>> : n \in NameTexts }
    \cup { <<n, c>> : n \in NameTexts, c \in CollegeTexts }
    \cup { <<n, c, <<"x">>>> : n \in { <<SP, "A", SP>> }, c \in { <<LABEL, SP, "C">> } }

\* a response is a transport failure (raise_for_status or the connection) or a page
ProfileResponses ==
    { [kind |-> "error", div |-> FALSE, p |-> <<>>],
      [kind |-> "html", div |-> FALSE, p |-> <<>>] }
    \cup { [kind |-> "html", div |-> TRUE, p |-> ps] : ps \in PLists }

\* the token input: absent, without a value attribute, or with one;
\* the two script assignments: absent (NoneV), with an empty value, or with one
SelectResponses ==
    { [kind |-> "error", input |-> "absent", value |-> NoneV, subId |-> NoneV,
       buildingId |-> NoneV] }
    \cup { [kind |-> "html", input |-> i, value |-> NoneV, subId |-> s, buildingId |-> b] :
             i \in {"absent", "novalue"}, s \in {NoneV, "S1"}, b \in {NoneV, "B1"} }
    \cup { [kind |-> "html", input |-> "value", value |-> v, subId |-> s, buildingId |-> b] :
             v \in {"", "T1"}, s \in {NoneV, "", "S1"}, b \in {NoneV, "", "B1"} }

----------------------------------------------------------------------------
(* Stage 1: get_personal_info *)

\* the pair get_personal_info returns for a response
PersonalInfo(resp) ==
    IF resp.kind = "error" THEN [name |-> NoneV, college |-> NoneV, err |-> "TransportError"]
    ELSE IF ~resp.div THEN [name |-> NoneV, college |-> NoneV, err |-> "AuthOrPageError"]
    ELSE IF Len(resp.p) < 2 THEN [name |-> NoneV, college |-> NoneV, err |-> "AuthOrPageError"]
    ELSE [name |-> Join(Strip(resp.p[1])),
          college |-> Join(Strip(RemoveLabel(resp.p[2]))),
          err |-> "none"]

Init ==
    /\ pc = "personal"
    /\ outcome = "running"
    /\ reqs = <<>>
    /\ replies = <<>>
    /\ name = NoneV /\ college = NoneV
    /\ token = NoneV /\ sub_id = NoneV /\ building_id = NoneV
    /\ floor_select_list = <<>>
    /\ floor_idx = 0
    /\ all_rooms_data = <<>>
    /\ rooms_ret = [tag |-> "unset", val |-> <<>>]
    /\ printed = "none"
    /\ offered = {}
    /\ target_room_name = NoneV /\ target_bed_name = NoneV
    /\ post_data = NoForm
    /\ confirm = NoneV
    /\ result = [tag |-> "none", text |-> NoneV]

\* main, lines 312-314, with the call of get_personal_info
GetPersonalInfo ==
    /\ pc = "personal"
    /\ \E resp \in ProfileResponses :
         LET r == PersonalInfo(resp) IN
         /\ reqs' = Append(reqs, ProfileGet)
         /\ replies' = Append(replies, resp)
         /\ name' = r.name
         /\ college' = r.college
         /\ IF ~Truthy(r.name) \/ ~Truthy(r.college)
            THEN /\ pc' = "done"
                 /\ outcome' = IF r.err = "none" THEN "EmptyIdentity" ELSE r.err
            ELSE /\ pc' = "params"
                 /\ outcome' = outcome
    /\ UNCHANGED <<token, sub_id, building_id, floor_select_list, floor_idx,
                   all_rooms_data, rooms_ret, printed, offered, target_room_name,
                   target_bed_name, post_data, confirm, result>>

----------------------------------------------------------------------------
(* Stage 2: get_selection_params *)

\* group(1) of re.search(r"<key>\s*=\s*'([^']+)';", text): the pattern needs at
\* least one character between the quotes, so an empty assignment does not match
RegexGroup(assign) == IF assign = NoneV \/ assign = "" THEN NoneV ELSE assign

\* get_selection_params without the test of sub_id_match on line 118
SelectionParamsNoSubIdCheck(resp) ==
    LET none(e) == [token |-> NoneV, sub_id |-> NoneV, building_id |-> NoneV, err |-> e]
    IN  IF resp.kind = "error" THEN none("TransportError")
        ELSE IF resp.input # "value" THEN none("MissingTokenError")
        ELSE IF RegexGroup(resp.buildingId) = NoneV THEN none("MissingRoutingIdsError")
        ELSE [token |-> resp.value, sub_id |-> RegexGroup(resp.subId),
              building_id |-> RegexGroup(resp.buildingId), err |-> "none"]

\* the triple get_selection_params returns for a response
SelectionParams(resp) ==
    LET none(e) == [token |-> NoneV, sub_id |-> NoneV, building_id |-> NoneV, err |-> e]
    IN  IF resp.kind = "error" THEN none("TransportError")
        ELSE IF resp.input # "value" THEN none("MissingTokenError")
        ELSE IF RegexGroup(resp.subId) = NoneV \/ RegexGroup(resp.buildingId) = NoneV
             THEN none("MissingRoutingIdsError")
        ELSE [token |-> resp.value, sub_id |-> RegexGroup(resp.subId),
              building_id |-> RegexGroup(resp.buildingId), err |-> "none"]

\* main, lines 316-318, with the call of get_selection_params
GetSelectionParams ==
    /\ pc = "params"
    /\ \E resp \in SelectResponses :
         LET r == SelectionParams(resp) IN
         /\ reqs' = Append(reqs, SelectGet(name, college))
         /\ replies' = Append(replies, resp)
         /\ token' = r.token
         /\ sub_id' = r.sub_id
         /\ building_id' = r.building_id
         /\ IF ~AllTruthy(<<r.token, r.sub_id, r.building_id>>)
            THEN /\ pc' = "done"
                 /\ outcome' = IF r.err = "none" THEN "EmptyContext" ELSE r.err
            ELSE /\ pc' = "rooms"
                 /\ outcome' = outcome
    /\ UNCHANGED <<name, college, floor_select_list, floor_idx, all_rooms_data,
                   rooms_ret, printed, offered, target_room_name, target_bed_name,
                   post_data, confirm, result>>

----------------------------------------------------------------------------
(* The floorShow and saveChosen envelopes *)

NOT_CHOSEN == "notCho"

Bed(n, i, c) == [name |-> n, id |-> i, choose |-> c]
Room(n, i, f, b) == [name |-> n, id |-> i, floorId |-> f, bed |-> b]
Floor(r) == [room |-> r]

\* the data.floor lists a per-floor response can carry
FloorA == << Floor(<< Room("X", "r1", "f1",
                           << Bed("1", "b1", NOT_CHOSEN), Bed("2", "b2", "cho") >>) >>) >>
FloorB == << Floor(<< Room("X", "r2", "f2",
                           << Bed("1", "b3", "cho"), Bed("1", "b4", NOT_CHOSEN) >>) >>) >>
FloorC == << Floor(<< Room("X", "r3", "f3",
                           << Bed("1", NoneV, NOT_CHOSEN), Bed("1", "b5", NOT_CHOSEN) >>),
                      Room("Y", "", "f3", << Bed("1", "b6", NOT_CHOSEN) >>) >>) >>
FloorD == << Floor(<< Room("Y", "r4", "f4", << Bed("2", "b7", NOT_CHOSEN) >>) >>),
             Floor(<< Room("Y", "r5", NoneV, << Bed("1", "b8", NOT_CHOSEN) >>) >>) >>
FloorE == << Floor(<< Room("X", "r6", "f6",
                           << Bed("1", "b9", "cho"), Bed("2", "b10", NoneV) >>) >>) >>
FloorF == << Floor(<< Room(NoneV, "r7", "f7", << Bed(NoneV, "b11", NOT_CHOSEN) >>) >>) >>
FloorG == << Floor(<< >>) >>

FloorLists == { <<>>, FloorA, FloorB, FloorC, FloorD, FloorE, FloorF, FloorG }

\* the floorSelect entries: a floor id, or an entry without one
FloorRefs == { [floorId |-> f] : f \in {"F1", "F2", NoneV} }

RECURSIVE SeqsUpTo(_, _)
SeqsUpTo(S, n) ==
    IF n = 0 THEN { <<>> }
    ELSE LET shorter == SeqsUpTo(S, n - 1)
         IN  shorter \cup { Append(s, x) : s \in { t \in shorter : Len(t) = n - 1 }, x \in S }

FloorSelects == SeqsUpTo(FloorRefs, MaxFloors)

\* a JSON response: a transport failure, a body that is not JSON ("text"), JSON
\* that is not an object ("array"), or an envelope.  data is "missing", "null"
\* or "object"; floorSelect, floor and payload are what data holds.
Envelope(k, st, msg, d, fs, fl, pl) ==
    [kind |-> k, status |-> st, message |-> msg, data |-> d,
     floorSelect |-> fs, floor |-> fl, payload |-> pl]

BrokenResponses ==
    { Envelope(k, NoneV, NoneV, "missing", <<>>, <<>>, NoneV) : k \in {"error", "text", "array"} }

FloorListResponses ==
    BrokenResponses
    \cup { Envelope("object", st, "busy", d, <<>>, <<>>, NoneV) :
             st \in {"success", "fail"}, d \in {"missing", "null"} }
    \cup { Envelope("object", st, NoneV, "object", fs, <<>>, NoneV) :
             st \in {"success", "fail"}, fs \in FloorSelects }

FloorResponses ==
    BrokenResponses
    \cup { Envelope("object", "fail", "busy", d, <<>>, <<>>, NoneV) : d \in {"missing", "null"} }
    \cup { Envelope("object", "success", NoneV, "object", <<>>, fl, NoneV) : fl \in FloorLists }
    \cup { Envelope("object", "fail", "busy", "object", <<>>, FloorA, NoneV) }

SaveResponses ==
    BrokenResponses
    \cup { Envelope("object", st, "taken", "object", <<>>, <<>>, "OK") :
             st \in {"success", "SUCCESS"} }
    \cup { Envelope("object", st, msg, "missing", <<>>, <<>>, NoneV) :
             st \in {"fail", NoneV}, msg \in {"taken", NoneV} }

----------------------------------------------------------------------------
(* Stage 3: get_and_display_rooms *)

RetUnset == [tag |-> "unset", val |-> <<>>]
RetNone == [tag |-> "None", val |-> <<>>]
RetList(l) == [tag |-> "list", val |-> l]

\* The except clause that catches a failure of response.json().  requests 2.27
\* and later raise requests.exceptions.JSONDecodeError, which is a
\* RequestException as well as a json.JSONDecodeError, so the clause listed first
\* (lines 210, 284) catches it; earlier versions raise a plain
\* json.JSONDecodeError, which the second clause (lines 213, 286) catches.
JsonErrorHandlers == {"RequestException", "JSONDecodeError"}

\* the message and the outcome of a body that is not JSON
NotJson(h) ==
    IF h = "RequestException"
    THEN [printed |-> "network_error", err |-> "TransportError"]
    ELSE [printed |-> "format_error", err |-> "ResponseFormatError"]

\* lines 148-161: what the floor-list response leads to.  "raise" is an
\* exception that no handler of the function catches (AttributeError).
FloorListResult(resp, h) ==
    LET stop(t, m, e) == [tag |-> t, list |-> <<>>, printed |-> m, err |-> e]
    IN  IF resp.kind = "error" THEN stop("none", "network_error", "TransportError")
        ELSE IF resp.kind = "text" THEN stop("none", NotJson(h).printed, NotJson(h).err)
        ELSE IF resp.kind = "array" THEN stop("raise", "none", "Crash")
        ELSE IF resp.status # "success" THEN stop("none", "api_error", "NoFloorsError")
        ELSE IF resp.data = "null" THEN stop("raise", "none", "Crash")
        ELSE IF resp.floorSelect = <<>> THEN stop("none", "no_floors", "NoFloorsError")
        ELSE [tag |-> "ok", list |-> resp.floorSelect, printed |-> "none", err |-> "none"]

\* the per-floor request with a transport failure swallowed: the floor is skipped
FloorDataSkipsError(resp, h) ==
    LET stop(t, m, e) == [tag |-> t, floor |-> <<>>, printed |-> m, err |-> e]
    IN  IF resp.kind = "error" THEN stop("ok", "none", "none")
        ELSE IF resp.kind = "text" THEN stop("none", NotJson(h).printed, NotJson(h).err)
        ELSE IF resp.kind = "array" THEN stop("raise", "none", "Crash")
        ELSE IF resp.data = "null" THEN stop("raise", "none", "Crash")
        ELSE [tag |-> "ok", floor |-> resp.floor, printed |-> "none", err |-> "none"]

\* lines 172-176: what one per-floor response leads to; the status is not read
FloorData(resp, h) ==
    LET stop(t, m, e) == [tag |-> t, floor |-> <<>>, printed |-> m, err |-> e]
    IN  IF resp.kind = "error" THEN stop("none", "network_error", "TransportError")
        ELSE IF resp.kind = "text" THEN stop("none", NotJson(h).printed, NotJson(h).err)
        ELSE IF resp.kind = "array" THEN stop("raise", "none", "Crash")
        ELSE IF resp.data = "null" THEN stop("raise", "none", "Crash")
        ELSE [tag |-> "ok", floor |-> resp.floor, printed |-> "none", err |-> "none"]

\* the accumulator assigned instead of extended
ExtendOverwrite(acc, floor_data) == IF floor_data # <<>> THEN floor_data ELSE acc

\* lines 177-178
Extend(acc, floor_data) == IF floor_data # <<>> THEN acc \o floor_data ELSE acc

\* the availability test on the taken marker instead of the sentinel
AvailableUnlessChosen(bed) == bed.choose # "cho"

\* line 192
Available(bed) == bed.choose = NOT_CHOSEN

\* lines 189 and 199: the room name as printed
RoomLabel(room) == IF room.name = NoneV THEN "UnknownRoom" ELSE room.name

\* lines 186-201: the (room, bed) lines printed for a catalog
Offered(cat) ==
    UNION { UNION { { [room |-> RoomLabel(cat[i].room[j]),
                       bed |-> Fmt(cat[i].room[j].bed[k].name)] :
                        k \in { b \in 1..Len(cat[i].room[j].bed) :
                                  Available(cat[i].room[j].bed[b]) } } :
                    j \in 1..Len(cat[i].room) } :
            i \in 1..Len(cat) }

\* available_beds_found set for any bed, whatever its marker
AvailableBedsFoundAnyBed(cat) ==
    \E i \in 1..Len(cat) : \E j \in 1..Len(cat[i].room) : cat[i].room[j].bed # <<>>

\* lines 185-198: available_beds_found after the loops
AvailableBedsFound(cat) ==
    \E i \in 1..Len(cat) : \E j \in 1..Len(cat[i].room) :
        \E k \in 1..Len(cat[i].room[j].bed) : Available(cat[i].room[j].bed[k])

\* lines 147-161: the floor-list request
FloorList ==
    /\ pc = "rooms"
    /\ \E resp \in FloorListResponses, h \in JsonErrorHandlers :
         LET r == FloorListResult(resp, h) IN
         /\ reqs' = Append(reqs, FloorListPost(building_id, sub_id))
         /\ replies' = Append(replies, resp)
         /\ floor_select_list' = r.list
         /\ printed' = r.printed
         /\ IF r.tag = "ok"
            THEN /\ pc' = "floor"
                 /\ floor_idx' = 1
                 /\ UNCHANGED <<outcome, rooms_ret>>
            ELSE /\ pc' = "done"
                 /\ outcome' = r.err
                 /\ rooms_ret' = IF r.tag = "none" THEN RetNone ELSE rooms_ret
                 /\ UNCHANGED floor_idx
    /\ UNCHANGED <<name, college, token, sub_id, building_id, all_rooms_data, offered,
                   target_room_name, target_bed_name, post_data, confirm, result>>

\* the loop iteration asking again for the same floor after a failed request
FloorFetchRetry ==
    /\ pc = "floor"
    /\ floor_idx <= Len(floor_select_list)
    /\ \E resp \in FloorResponses, h \in JsonErrorHandlers :
         LET r == FloorData(resp, h) IN
         /\ reqs' = Append(reqs, FloorPost(building_id, sub_id,
                                           floor_select_list[floor_idx].floorId))
         /\ replies' = Append(replies, resp)
         /\ printed' = r.printed
         /\ IF r.tag = "ok"
            THEN /\ all_rooms_data' = Extend(all_rooms_data, r.floor)
                 /\ floor_idx' = floor_idx + 1
                 /\ pc' = IF floor_idx = Len(floor_select_list) THEN "display" ELSE "floor"
                 /\ UNCHANGED <<outcome, rooms_ret>>
            ELSE IF r.err = "TransportError"
            THEN UNCHANGED <<pc, outcome, rooms_ret, all_rooms_data, floor_idx>>
            ELSE /\ pc' = "done"
                 /\ outcome' = r.err
                 /\ rooms_ret' = IF r.tag = "none" THEN RetNone ELSE rooms_ret
                 /\ UNCHANGED <<all_rooms_data, floor_idx>>
    /\ UNCHANGED <<name, college, token, sub_id, building_id, floor_select_list, offered,
                   target_room_name, target_bed_name, post_data, confirm, result>>

\* lines 166-178: one iteration of the loop over floor_select_list
FloorFetch ==
    /\ pc = "floor"
    /\ floor_idx <= Len(floor_select_list)
    /\ \E resp \in FloorResponses, h \in JsonErrorHandlers :
         LET r == FloorData(resp, h) IN
         /\ reqs' = Append(reqs, FloorPost(building_id, sub_id,
                                           floor_select_list[floor_idx].floorId))
         /\ replies' = Append(replies, resp)
         /\ printed' = r.printed
         /\ IF r.tag = "ok"
            THEN /\ all_rooms_data' = Extend(all_rooms_data, r.floor)
                 /\ floor_idx' = floor_idx + 1
                 /\ pc' = IF floor_idx = Len(floor_select_list) THEN "display" ELSE "floor"
                 /\ UNCHANGED <<outcome, rooms_ret>>
            ELSE /\ pc' = "done"
                 /\ outcome' = r.err
                 /\ rooms_ret' = IF r.tag = "none" THEN RetNone ELSE rooms_ret
                 /\ UNCHANGED <<all_rooms_data, floor_idx>>
    /\ UNCHANGED <<name, college, token, sub_id, building_id, floor_select_list, offered,
                   target_room_name, target_bed_name, post_data, confirm, result>>

\* get_and_display_rooms returning an empty list when every bed is taken
DisplayResultEmptyList(cat) ==
    IF cat = <<>> THEN [printed |-> "no_rooms", ret |-> RetNone, err |-> "NoRoomsError"]
    ELSE IF ~AvailableBedsFound(cat)
         THEN [printed |-> "fully_booked", ret |-> RetList(<<>>), err |-> "EmptySelection"]
    ELSE [printed |-> "listed", ret |-> RetList(cat), err |-> "none"]

\* lines 180-208: the message printed and the value returned for a catalog
DisplayResult(cat) ==
    IF cat = <<>> THEN [printed |-> "no_rooms", ret |-> RetNone, err |-> "NoRoomsError"]
    ELSE IF ~AvailableBedsFound(cat)
         THEN [printed |-> "fully_booked", ret |-> RetNone, err |-> "EmptySelection"]
    ELSE [printed |-> "listed", ret |-> RetList(cat), err |-> "none"]

\* lines 180-208 and main, lines 320-322
DisplayRooms ==
    /\ pc = "display"
    /\ LET r == DisplayResult(all_rooms_data) IN
       /\ printed' = r.printed
       /\ rooms_ret' = r.ret
       /\ offered' = IF all_rooms_data = <<>> THEN offered ELSE Offered(all_rooms_data)
       /\ IF r.ret.tag = "None" \/ r.ret.val = <<>>
          THEN pc' = "done" /\ outcome' = r.err
          ELSE pc' = "input" /\ outcome' = outcome
    /\ UNCHANGED <<reqs, replies, name, college, token, sub_id, building_id,
                   floor_select_list, floor_idx, all_rooms_data, target_room_name,
                   target_bed_name, post_data, confirm, result>>

----------------------------------------------------------------------------
(* Stage 4: select_bed *)

\* the lines the operator can type at the room and at the bed prompt
RoomInputs == { <<"X">>, <<SP, "Y", SP>>, <<"Z">> }
BedInputs == { <<"1">>, <<"2", SP>> }

\* the lines the operator can type at the confirmation prompt
Answers == { <<"y">>, <<SP, "Y">>, <<"n">>, <<"y", "e", "s">>, <<>> }

NoTarget == [room_id |-> NoneV, bed_id |-> NoneV, floor_id |-> NoneV]

\* the bed lookup without the test of the marker
RECURSIVE FirstBedAnyMarker(_, _, _)
FirstBedAnyMarker(beds, k, bn) ==
    IF k > Len(beds) THEN 0
    ELSE IF beds[k].name = bn THEN k
    ELSE FirstBedAnyMarker(beds, k + 1, bn)

\* the bed lookup giving up at the first bed of that name when it is taken
RECURSIVE FirstBedStopsAtName(_, _, _)
FirstBedStopsAtName(beds, k, bn) ==
    IF k > Len(beds) THEN 0
    ELSE IF beds[k].name = bn THEN (IF beds[k].choose = NOT_CHOSEN THEN k ELSE 0)
    ELSE FirstBedStopsAtName(beds, k + 1, bn)

\* lines 235-240: the first bed of the room that has the name and is not chosen, or 0
RECURSIVE FirstBed(_, _, _)
FirstBed(beds, k, bn) ==
    IF k > Len(beds) THEN 0
    ELSE IF beds[k].name = bn /\ beds[k].choose = NOT_CHOSEN THEN k
    ELSE FirstBed(beds, k + 1, bn)

\* the room loop taking the id of the room's first bed instead of the matching one
RECURSIVE ScanRoomsFirstBedId(_, _, _, _, _)
ScanRoomsFirstBedId(rooms, j, rn, bn, acc) ==
    IF j > Len(rooms) THEN acc
    ELSE IF rooms[j].name # rn THEN ScanRoomsFirstBedId(rooms, j + 1, rn, bn, acc)
    ELSE LET k == FirstBed(rooms[j].bed, 1, bn)
             acc2 == IF k = 0 THEN acc
                     ELSE [room_id |-> rooms[j].id, bed_id |-> rooms[j].bed[1].id,
                           floor_id |-> rooms[j].floorId]
         IN  IF Truthy(acc2.bed_id) THEN acc2
             ELSE ScanRoomsFirstBedId(rooms, j + 1, rn, bn, acc2)

\* lines 233-242: the loop over the rooms of one floor, from room j on
RECURSIVE ScanRooms(_, _, _, _, _)
ScanRooms(rooms, j, rn, bn, acc) ==
    IF j > Len(rooms) THEN acc
    ELSE IF rooms[j].name # rn THEN ScanRooms(rooms, j + 1, rn, bn, acc)
    ELSE LET k == FirstBed(rooms[j].bed, 1, bn)
             acc2 == IF k = 0 THEN acc
                     ELSE [room_id |-> rooms[j].id, bed_id |-> rooms[j].bed[k].id,
                           floor_id |-> rooms[j].floorId]
         IN  IF Truthy(acc2.bed_id) THEN acc2
             ELSE ScanRooms(rooms, j + 1, rn, bn, acc2)

\* the floor loop without its break on line 243: the last match wins
RECURSIVE ScanFloorsNoBreak(_, _, _, _, _)
ScanFloorsNoBreak(cat, i, rn, bn, acc) ==
    IF i > Len(cat) THEN acc
    ELSE ScanFloorsNoBreak(cat, i + 1, rn, bn, ScanRooms(cat[i].room, 1, rn, bn, acc))

\* lines 232-244: the loop over the floors, from floor i on
RECURSIVE ScanFloors(_, _, _, _, _)
ScanFloors(cat, i, rn, bn, acc) ==
    IF i > Len(cat) THEN acc
    ELSE LET acc2 == ScanRooms(cat[i].room, 1, rn, bn, acc)
         IN  IF Truthy(acc2.bed_id) THEN acc2
             ELSE ScanFloors(cat, i + 1, rn, bn, acc2)

\* lines 227-244
Resolve(cat, rn, bn) == ScanFloors(cat, 1, rn, bn, NoTarget)

\* the test of line 246 on the bed id alone
ResolvedBedOnly(t) == Truthy(t.bed_id)

\* line 246
Resolved(t) == AllTruthy(<<t.room_id, t.bed_id, t.floor_id>>)

\* the form with the two routing ids under each other's key
PostDataSwapped(t) ==
    [roomId |-> t.room_id, bedId |-> t.bed_id, floorId |-> t.floor_id,
     token |-> token, buildingId |-> sub_id, studentName |-> name,
     deptName |-> college, subId |-> building_id]

\* lines 253-262
PostData(t) ==
    [roomId |-> t.room_id, bedId |-> t.bed_id, floorId |-> t.floor_id,
     token |-> token, buildingId |-> building_id, studentName |-> name,
     deptName |-> college, subId |-> sub_id]

\* the gate closed only by an explicit no
ConfirmedUnlessNo(c) == c # "n"

\* line 266: the answer that lets the request go out
Confirmed(c) == c = "y"

\* the result read with the test of line 279 turned into a test for "fail"
SaveResultUnlessFail(resp, h) ==
    IF resp.kind = "error" THEN [tag |-> "TransportError", text |-> NoneV]
    ELSE IF resp.kind = "text" THEN [tag |-> NotJson(h).err, text |-> NoneV]
    ELSE IF resp.kind = "array" THEN [tag |-> "UnknownError", text |-> NoneV]
    ELSE IF resp.status # "fail" THEN [tag |-> "Success", text |-> resp.payload]
    ELSE [tag |-> "Failure",
          text |-> IF resp.message = NoneV THEN "unknown" ELSE resp.message]

\* lines 278-289: what the reservation response is mapped to
SaveResult(resp, h) ==
    IF resp.kind = "error" THEN [tag |-> "TransportError", text |-> NoneV]
    ELSE IF resp.kind = "text" THEN [tag |-> NotJson(h).err, text |-> NoneV]
    ELSE IF resp.kind = "array" THEN [tag |-> "UnknownError", text |-> NoneV]
    ELSE IF resp.status = "success" THEN [tag |-> "Success", text |-> resp.payload]
    ELSE [tag |-> "Failure",
          text |-> IF resp.message = NoneV THEN "unknown" ELSE resp.message]

\* lines 223-263: the two prompts, the lookup and the form
ReadSelection ==
    /\ pc = "input"
    /\ \E rl \in RoomInputs, bl \in BedInputs :
         LET rn == Join(Strip(rl))
             bn == Join(Strip(bl))
             t == Resolve(rooms_ret.val, rn, bn)
         IN  /\ target_room_name' = rn
             /\ target_bed_name' = bn
             /\ IF ~Resolved(t)
                THEN /\ pc' = "done"
                     /\ outcome' = "SelectionNotFoundError"
                     /\ UNCHANGED post_data
                ELSE /\ pc' = "confirm"
                     /\ post_data' = PostData(t)
                     /\ UNCHANGED outcome
    /\ UNCHANGED <<reqs, replies, name, college, token, sub_id, building_id, floor_select_list,
                   floor_idx, all_rooms_data, rooms_ret, printed, offered, confirm, result>>

\* lines 265-289: the confirmation prompt, the reservation request and its result
Confirm ==
    /\ pc = "confirm"
    /\ \E al \in Answers :
         /\ confirm' = Join(Lower(Strip(al)))
         /\ IF ~Confirmed(confirm')
            THEN /\ outcome' = "Cancelled"
                 /\ UNCHANGED <<reqs, replies, result>>
            ELSE \E resp \in SaveResponses, h \in JsonErrorHandlers :
                 /\ reqs' = Append(reqs, SavePost(post_data))
                 /\ replies' = Append(replies, resp)
                 /\ result' = SaveResult(resp, h)
                 /\ outcome' = result'.tag
    /\ pc' = "done"
    /\ UNCHANGED <<name, college, token, sub_id, building_id, floor_select_list,
                   floor_idx, all_rooms_data, rooms_ret, printed, offered,
                   target_room_name, target_bed_name, post_data>>

\* lines 224, 225, 265 and 288: input() raises EOFError at a prompt
PromptEOF ==
    /\ pc \in {"input", "confirm"}
    /\ pc' = "done"
    /\ outcome' = "UnknownError"
    /\ UNCHANGED <<reqs, replies, name, college, token, sub_id, building_id, floor_select_list,
                   floor_idx, all_rooms_data, rooms_ret, printed, offered,
                   target_room_name, target_bed_name, post_data, confirm, result>>

Next ==
    \/ GetPersonalInfo
    \/ GetSelectionParams
    \/ FloorList
    \/ FloorFetch
    \/ DisplayRooms
    \/ ReadSelection
    \/ Confirm
    \/ PromptEOF

Spec == Init /\ [][Next]_vars

\* what a step of Next does to the position and to the request log, whatever
\* is received: a blocking call returns and the thread goes on
Step ==
    \/ /\ pc = "personal"
       /\ reqs' = Append(reqs, ProfileGet)
       /\ pc' \in {"params", "done"}
    \/ /\ pc = "params"
       /\ reqs' = Append(reqs, SelectGet(name, college))
       /\ pc' \in {"rooms", "done"}
    \/ /\ pc = "rooms"
       /\ reqs' = Append(reqs, FloorListPost(building_id, sub_id))
       /\ pc' \in {"floor", "done"}
    \/ /\ pc = "floor"
       /\ reqs' = Append(reqs, FloorPost(building_id, sub_id,
                                        floor_select_list[floor_idx].floorId))
       /\ pc' \in {"floor", "display", "done"}
    \/ /\ pc = "display"
       /\ pc' \in {"input", "done"}
       /\ reqs' = reqs
    \/ /\ pc = "input"
       /\ pc' \in {"confirm", "done"}
       /\ reqs' = reqs
    \/ /\ pc = "confirm"
       /\ pc' = "done"
       /\ reqs' \in {reqs, Append(reqs, SavePost(post_data))}

\* every call of requests and of input() returns (lines 64, 99, 150, 175, 224,
\* 225, 265, 276 block the only thread), so the run takes its next step
Fairness == WF_<<pc, reqs>>(Step)

LiveSpec == Init /\ [][Next]_vars /\ Fairness

----------------------------------------------------------------------------
(* Properties *)

\* positions of the requests of one kind
Issued(k) == { i \in DOMAIN reqs : reqs[i].kind = k }

\* the order of the stages
Rank(k) ==
    CASE k = "profile_get" -> 1 [] k = "select_get" -> 2 [] k = "floor_list_post" -> 3
      [] k = "floor_post" -> 4 [] k = "save_post" -> 5

\* the reply to request i shows the failure of its stage
FailedReply(i) ==
    LET k == reqs[i].kind
        r == replies[i]
    IN  \/ r.kind = "error"
        \/ k = "profile_get" /\ (~r.div \/ Len(r.p) < 2)
        \/ k = "select_get" /\ (r.input # "value" \/ r.subId \in {NoneV, ""}
                                  \/ r.buildingId \in {NoneV, ""})
        \/ k \in {"floor_list_post", "floor_post"} /\ r.kind \in {"text", "array"}
        \/ k = "floor_list_post" /\ (r.status # "success" \/ r.floorSelect = <<>>)

\* the catalog holds a room named rn with a bed named bn that is not chosen
HasAvailable(cat, rn, bn) ==
    \E i \in 1..Len(cat) : \E j \in 1..Len(cat[i].room) :
        /\ cat[i].room[j].name = rn
        /\ \E k \in 1..Len(cat[i].room[j].bed) :
             /\ cat[i].room[j].bed[k].name = bn
             /\ cat[i].room[j].bed[k].choose = "notCho"

StagesInOrder ==
    /\ Len(replies) = Len(reqs)
    /\ reqs # <<>> => reqs[1].kind = "profile_get"
    /\ \A i \in 2..Len(reqs) :
         \/ Rank(reqs[i].kind) = Rank(reqs[i - 1].kind) + 1
         \/ reqs[i].kind = "floor_post" /\ reqs[i - 1].kind = "floor_post"
    /\ \A k \in {"profile_get", "select_get", "floor_list_post", "save_post"} :
         Cardinality(Issued(k)) <= 1

FailureIsLast ==
    /\ \A i \in DOMAIN reqs : FailedReply(i) => i = Len(reqs) /\ pc = "done"
    /\ outcome \in {"NoRoomsError", "NoFloorsError", "EmptySelection"} => pc = "done"

\* C1: the requests go out in the order profile GET, selection-entry GET,
\* floor-list POST, per-floor POSTs, reservation POST, each stage only after the
\* earlier ones succeeded, and once a stage has failed no request follows.
C1_FailFastOrder ==
    /\ [](StagesInOrder /\ FailureIsLast)
    /\ [][outcome # "running" => reqs' = reqs]_vars

\* a run that stopped at the second per-floor request
C1_Witness ==
    /\ pc = "done"
    /\ Len(reqs) = 5
    /\ reqs[4].kind = "floor_post" /\ reqs[5].kind = "floor_post"
    /\ replies[5].kind = "error"
    /\ replies[4].floor # <<>>

\* C2: when no room named roomName holds an available bed named bedName, submit
\* ends with SelectionNotFoundError, issues no request and never asks for
\* confirmation.
C2_NotFound ==
    (target_room_name # NoneV
       /\ ~HasAvailable(rooms_ret.val, target_room_name, target_bed_name))
    => /\ pc = "done"
       /\ outcome = "SelectionNotFoundError"
       /\ confirm = NoneV
       /\ post_data = NoForm
       /\ Issued("save_post") = {}

\* the room and a bed of that name exist, but the bed is taken
C2_Witness ==
    /\ outcome = "SelectionNotFoundError"
    /\ ~HasAvailable(rooms_ret.val, target_room_name, target_bed_name)
    /\ \E i \in 1..Len(all_rooms_data) : \E j \in 1..Len(all_rooms_data[i].room) :
         /\ all_rooms_data[i].room[j].name = target_room_name
         /\ \E k \in 1..Len(all_rooms_data[i].room[j].bed) :
              /\ all_rooms_data[i].room[j].bed[k].name = target_bed_name
              /\ all_rooms_data[i].room[j].bed[k].choose = "cho"

\* C3: when the pair resolved and the answer is not a yes, no request is issued,
\* the reservation POST never happens and the run ends as a cancellation.
C3_Cancel ==
    (confirm # NoneV /\ confirm # "y")
    => /\ pc = "done"
       /\ outcome = "Cancelled"
       /\ Issued("save_post") = {}
       /\ reqs[Len(reqs)].kind = "floor_post"
       /\ result.tag = "none"

C3_Witness ==
    /\ outcome = "Cancelled"
    /\ confirm = "n"
    /\ post_data.bedId = "b4"

\* the form carries the ids of a room named rn and of an available bed named bn
\* inside that same room
FormOfAvailableBed(cat, rn, bn, form) ==
    \E i \in 1..Len(cat) : \E j \in 1..Len(cat[i].room) :
        /\ cat[i].room[j].name = rn
        /\ form.roomId = cat[i].room[j].id
        /\ form.floorId = cat[i].room[j].floorId
        /\ \E k \in 1..Len(cat[i].room[j].bed) :
             /\ cat[i].room[j].bed[k].name = bn
             /\ cat[i].room[j].bed[k].choose = "notCho"
             /\ form.bedId = cat[i].room[j].bed[k].id

\* C4: when the pair resolved and the operator confirmed, exactly one
\* reservation POST is issued, with the room id and floor id of a room named
\* roomName and the bed id of a not-chosen bed named bedName of that room; no
\* reservation POST is ever issued for another bed.
C4_OnePostForAvailableBed ==
    /\ Cardinality(Issued("save_post")) <= 1
    /\ confirm = "y" => Cardinality(Issued("save_post")) = 1
    /\ \A i \in Issued("save_post") :
         /\ confirm = "y"
         /\ FormOfAvailableBed(all_rooms_data, target_room_name, target_bed_name,
                               reqs[i].data)

\* the bed was found behind a taken bed of the same name
C4_Witness ==
    /\ confirm = "y"
    /\ Issued("save_post") # {}
    /\ reqs[Len(reqs)].data.bedId = "b4"
    /\ reqs[Len(reqs)].data.roomId = "r2"

\* every bed of the catalog is taken
NoBedAvailable(cat) ==
    \A i \in 1..Len(cat) : \A j \in 1..Len(cat[i].room) :
        \A k \in 1..Len(cat[i].room[j].bed) : cat[i].room[j].bed[k].choose # "notCho"

\* the loop over the floors ran to its end and the result was reported
FloorsDone ==
    /\ pc \in {"input", "confirm", "done"}
    /\ floor_select_list # <<>>
    /\ floor_idx = Len(floor_select_list) + 1

\* get_and_display_rooms ended in one of its failures
AggregateFailed ==
    /\ pc = "done"
    /\ reqs # <<>>
    /\ reqs[Len(reqs)].kind \in {"floor_list_post", "floor_post"}
    /\ outcome \in {"NoFloorsError", "NoRoomsError", "TransportError", "ResponseFormatError"}

\* C5 as stated: the value returned when every bed is taken differs from the
\* value returned for the failures (None).
C5_Original == outcome = "EmptySelection" => rooms_ret # RetNone

\* C5, amended: when floors exist but every bed is taken, the fully-booked
\* message is printed, which no failure prints, but the value returned to the
\* caller is the same None as for the failures, and the run ends there.
C5_SameValueOtherMessage ==
    /\ (FloorsDone /\ all_rooms_data # <<>> /\ NoBedAvailable(all_rooms_data))
       => /\ printed = "fully_booked"
          /\ rooms_ret = RetNone
          /\ pc = "done"
          /\ outcome = "EmptySelection"
          /\ target_room_name = NoneV
    /\ printed = "fully_booked"
       => FloorsDone /\ all_rooms_data # <<>> /\ NoBedAvailable(all_rooms_data)
    /\ AggregateFailed => rooms_ret = RetNone /\ printed # "fully_booked"

C5_Witness ==
    /\ printed = "fully_booked"
    /\ rooms_ret = RetNone
    /\ Len(all_rooms_data) = 2
    /\ all_rooms_data[1].room # <<>>

RECURSIVE FlatRooms(_)
FlatRooms(cat) == IF cat = <<>> THEN <<>> ELSE Head(cat).room \o FlatRooms(Tail(cat))

Min(S) == CHOOSE x \in S : \A y \in S : x <= y

\* the beds of a room that are named bn and not chosen
AvailableNamed(room, bn) ==
    { k \in 1..Len(room.bed) : room.bed[k].name = bn /\ room.bed[k].choose = "notCho" }

\* C6 as stated: only the first room named roomName is looked at.
C6_Original ==
    LET rooms == FlatRooms(all_rooms_data)
        named == { j \in 1..Len(rooms) : rooms[j].name = target_room_name }
    IN  (target_room_name # NoneV /\ named # {})
        => LET first == rooms[Min(named)]
           IN  /\ post_data # NoForm
                  => /\ post_data.roomId = first.id
                     /\ \E k \in AvailableNamed(first, target_bed_name) :
                          post_data.bedId = first.bed[k].id
               /\ AvailableNamed(first, target_bed_name) = {}
                  => outcome = "SelectionNotFoundError"

\* the rooms named rn whose first available bed named bn has a non-empty id
Candidates(rooms, rn, bn) ==
    { j \in 1..Len(rooms) :
        /\ rooms[j].name = rn
        /\ AvailableNamed(rooms[j], bn) # {}
        /\ rooms[j].bed[Min(AvailableNamed(rooms[j], bn))].id \notin {NoneV, ""} }

\* C6, amended: among the rooms named roomName, submit takes the first one, in
\* catalog order, whose first available bed named bedName has a non-empty id:
\* earlier rooms of that name are passed over and later ones are never
\* selected.  It fails with SelectionNotFoundError when there is no such room,
\* or when the room taken has an empty room id or floor id.
C6_FirstCandidateWins ==
    LET rooms == FlatRooms(all_rooms_data)
        cand == Candidates(rooms, target_room_name, target_bed_name)
    IN  target_room_name # NoneV
        => IF cand # {} /\ rooms[Min(cand)].id \notin {NoneV, ""}
                        /\ rooms[Min(cand)].floorId \notin {NoneV, ""}
           THEN LET room == rooms[Min(cand)]
                IN  /\ post_data.roomId = room.id
                    /\ post_data.floorId = room.floorId
                    /\ post_data.bedId =
                          room.bed[Min(AvailableNamed(room, target_bed_name))].id
                    /\ outcome # "SelectionNotFoundError"
           ELSE /\ outcome = "SelectionNotFoundError"
                /\ post_data = NoForm

\* the first room named X has its bed 1 taken, a later room named X is selected
C6_Witness ==
    /\ target_room_name = "X" /\ target_bed_name = "1"
    /\ Len(all_rooms_data) = 2
    /\ all_rooms_data[1].room # <<>>
    /\ all_rooms_data[1].room[1].id = "r6"
    /\ post_data.roomId = "r1" /\ post_data.bedId = "b1"

\* C7: a floor-list or per-floor body that is not a parseable envelope ends
\* aggregate without a catalog and stops the run, the floor is not skipped; an
\* unparseable reservation body ends submit in the format failure, not Success.
C7_UnparseableIsFatal ==
    \A i \in DOMAIN reqs :
        /\ (reqs[i].kind \in {"floor_list_post", "floor_post"}
              /\ replies[i].kind \in {"text", "array"})
           => /\ i = Len(reqs)
              /\ pc = "done"
              /\ rooms_ret.tag # "list"
              /\ target_room_name = NoneV
        /\ (reqs[i].kind = "save_post" /\ replies[i].kind \in {"text", "array"})
           => /\ pc = "done"
              /\ result.tag # "Success" /\ outcome # "Success"
              /\ replies[i].kind = "text" => outcome = "ResponseFormatError"

\* the floor records the per-floor replies i..Len(replies) carried
RECURSIVE FloorsFrom(_)
FloorsFrom(i) == IF i > Len(replies) THEN <<>> ELSE replies[i].floor \o FloorsFrom(i + 1)

\* C8: after a floor list f1..fn, the per-floor POSTs are issued one per floor,
\* the i-th with fi's floor id, in list order, n of them when none fails, and
\* the catalog is the concatenation of the floor records they returned; none is
\* issued before the floor list arrived or after one of them failed.
C8_FanOutInOrder ==
    LET posts == Issued("floor_post") IN
    IF Len(reqs) < 3 \/ FailedReply(3) \/ replies[3].data = "null"
    THEN posts = {} /\ all_rooms_data = <<>>
    ELSE LET fs == replies[3].floorSelect IN
         /\ reqs[3].kind = "floor_list_post"
         /\ posts = 4..(3 + Cardinality(posts))
         /\ Cardinality(posts) <= Len(fs)
         /\ \A i \in posts :
              /\ reqs[i].floorId = Fmt(fs[i - 3].floorId)
              /\ reqs[i].buildingId = building_id /\ reqs[i].subId = sub_id
              /\ (FailedReply(i) \/ replies[i].data = "null") => i = Len(reqs) /\ pc = "done"
         /\ all_rooms_data = FloorsFrom(4)
         /\ pc \in {"display", "input", "confirm"} => Cardinality(posts) = Len(fs)
         /\ (pc = "done" /\ Cardinality(posts) < Len(fs))
            => FailedReply(Len(reqs)) \/ replies[Len(reqs)].data = "null"

\* two floors with different ids, each of which gave records
C8_Witness ==
    /\ pc = "input"
    /\ Len(floor_select_list) = 2
    /\ floor_select_list[1].floorId = "F2" /\ floor_select_list[2].floorId = "F1"
    /\ replies[4].floor # <<>> /\ replies[5].floor # <<>>
    /\ replies[4].floor # replies[5].floor

\* the room and bed names an operator can type, the printed placeholders included
TypableRooms == {"X", "Y", "Z", "UnknownRoom", "None"}
TypableBeds == {"1", "2", "None"}

\* the (room, bed) pairs select_bed resolves in a catalog
Selectable(cat) ==
    { [room |-> rn, bed |-> bn] : <<rn, bn>> \in
        { pr \in TypableRooms \X TypableBeds : Resolved(Resolve(cat, pr[1], pr[2])) } }

\* the (room, bed) lines of the beds whose marker is the sentinel
MarkedNotChosen(cat) ==
    LET rooms == FlatRooms(cat)
        label(v, d) == IF v = NoneV THEN d ELSE v
    IN  UNION { { [room |-> label(rooms[j].name, "UnknownRoom"),
                   bed |-> label(rooms[j].bed[k].name, "None")] :
                    k \in { b \in 1..Len(rooms[j].bed) : rooms[j].bed[b].choose = "notCho" } } :
                j \in 1..Len(rooms) }

\* C9 as stated: the beds offered are exactly the beds that can be selected.
C9_Original == pc = "input" => offered = Selectable(rooms_ret.val)

\* C9, amended: a bed is offered if and only if its marker is the exact
\* sentinel, a missing marker included among the others; every bed the
\* submitter resolves was offered, but an offered bed cannot always be
\* selected (its ids may be empty, its names missing, or an earlier bed of the
\* same name may hide it).
C9_SelectableWereOffered ==
    pc \in {"input", "confirm"}
    => /\ offered = MarkedNotChosen(rooms_ret.val)
       /\ Selectable(rooms_ret.val) \subseteq offered
       /\ pc = "confirm" =>
            [room |-> target_room_name, bed |-> target_bed_name] \in offered

\* a bed without a marker sits next to offered beds and is not offered
C9_Witness ==
    /\ pc = "confirm"
    /\ \E i \in 1..Len(all_rooms_data) : \E j \in 1..Len(all_rooms_data[i].room) :
         \E k \in 1..Len(all_rooms_data[i].room[j].bed) :
            /\ all_rooms_data[i].room[j].bed[k].choose = NoneV
            /\ [room |-> all_rooms_data[i].room[j].name,
                bed |-> all_rooms_data[i].room[j].bed[k].name] \notin offered
    /\ Selectable(rooms_ret.val) # offered

\* C10: get_selection_params returns the three values only when the token
\* input and both assignments are found in the response; when one of them is
\* missing it returns none of them and no floor-list request follows, also when
\* the token is there.
C10_AllOrNothing ==
    Len(reqs) >= 2 =>
        LET r == replies[2]
            found == /\ r.kind = "html"
                     /\ r.input = "value"
                     /\ r.subId \notin {NoneV, ""}
                     /\ r.buildingId \notin {NoneV, ""}
        IN  /\ reqs[2].kind = "select_get"
            /\ ~found => /\ token = NoneV /\ sub_id = NoneV /\ building_id = NoneV
                         /\ Len(reqs) = 2 /\ pc = "done"
            /\ found => token = r.value /\ sub_id = r.subId /\ building_id = r.buildingId
            /\ Len(reqs) > 2 => found /\ token # ""

\* the token is there, the subId assignment is not
C10_Witness ==
    /\ Len(reqs) = 2
    /\ replies[2].kind = "html" /\ replies[2].input = "value"
    /\ replies[2].value = "T1"
    /\ replies[2].subId = NoneV /\ replies[2].buildingId = "B1"
    /\ outcome = "MissingRoutingIdsError"

\* C11: when the reservation POST returns a parseable envelope, the result is
\* Success with the envelope's data exactly when the status is 'success'; any
\* other status gives Failure with the server's message, never a transport
\* error and never Success.
C11_ResultFollowsStatus ==
    \A i \in Issued("save_post") :
        replies[i].kind = "object"
        => /\ outcome = result.tag
           /\ IF replies[i].status = "success"
              THEN result = [tag |-> "Success", text |-> replies[i].payload]
              ELSE /\ result.tag = "Failure"
                   /\ replies[i].message # NoneV => result.text = replies[i].message

\* a status that differs from 'success' only in its case, with data present
C11_Witness ==
    /\ Issued("save_post") # {}
    /\ replies[Len(replies)].kind = "object"
    /\ replies[Len(replies)].status = "SUCCESS"
    /\ result = [tag |-> "Failure", text |-> "taken"]

\* the values of the early stages as the requests carry them
ValuesForwarded ==
    /\ \A i \in Issued("select_get") :
         /\ reqs[i].studentName = name /\ reqs[i].deptName = college
         /\ name \notin {NoneV, ""} /\ college \notin {NoneV, ""}
    /\ \A i \in Issued("floor_list_post") \cup Issued("floor_post") :
         /\ reqs[i].buildingId = replies[2].buildingId
         /\ reqs[i].subId = replies[2].subId
    /\ \A i \in Issued("save_post") :
         /\ reqs[i].data.token = replies[2].value
         /\ reqs[i].data.buildingId = replies[2].buildingId
         /\ reqs[i].data.subId = replies[2].subId
         /\ reqs[i].data.studentName = reqs[2].studentName
         /\ reqs[i].data.deptName = reqs[2].deptName

\* C12: the values of the early stages are never changed afterwards: the
\* reservation POST carries the token, buildingId and subId of the
\* selection-entry page, the floor requests carry the same buildingId and
\* subId, and the selection-entry GET and the reservation POST carry the
\* identity get_personal_info produced.
C12_ValuesNeverChange ==
    /\ []ValuesForwarded
    /\ [][pc # "personal" => name' = name /\ college' = college]_vars
    /\ [][pc \notin {"personal", "params"}
            => token' = token /\ sub_id' = sub_id /\ building_id' = building_id]_vars

C12_Witness ==
    /\ outcome = "Success"
    /\ Len(reqs) = 6
    /\ reqs[6].data.deptName = "C"
    /\ reqs[6].data.token = "T1"

\* a text without its blanks
Unspaced(s) == Join(SelectSeq(s, LAMBDA t : t # SP))

\* C13: get_personal_info returns the name and the college without its label
\* prefix whenever the page has the container with at least two text fields;
\* when the container is missing or holds fewer than two, it fails the same
\* way and the selection-entry request is never issued.
C13_IdentityOrAuthError ==
    Len(reqs) >= 1 =>
        LET r == replies[1] IN
        /\ (r.kind = "html" /\ r.div /\ Len(r.p) >= 2)
           => /\ name = Unspaced(r.p[1])
              /\ (r.p[2] # <<>> /\ Head(r.p[2]) = LABEL) => college = Unspaced(Tail(r.p[2]))
              /\ outcome # "AuthOrPageError"
        /\ (r.kind = "html" /\ (~r.div \/ Len(r.p) < 2))
           => /\ name = NoneV /\ college = NoneV
              /\ outcome = "AuthOrPageError"
              /\ Len(reqs) = 1 /\ pc = "done"

\* the container is there with a single text field
C13_Witness ==
    /\ Len(reqs) = 1
    /\ replies[1].kind = "html" /\ replies[1].div
    /\ Len(replies[1].p) = 1
    /\ outcome = "AuthOrPageError"

\* every room named rn that holds an available bed named bn has a room id and a
\* floor id, and each of these beds has a bed id
MatchingIdsPresent(cat, rn, bn) ==
    \A j \in 1..Len(FlatRooms(cat)) :
        LET room == FlatRooms(cat)[j] IN
        (room.name = rn /\ AvailableNamed(room, bn) # {})
        => /\ room.id \notin {NoneV, ""} /\ room.floorId \notin {NoneV, ""}
           /\ \A k \in AvailableNamed(room, bn) : room.bed[k].id \notin {NoneV, ""}

\* C14 as stated: a room named roomName with an available bed named bedName is
\* always resolved, whatever its ids.
C14_Original ==
    (target_room_name # NoneV
       /\ HasAvailable(all_rooms_data, target_room_name, target_bed_name))
    => outcome # "SelectionNotFoundError" /\ post_data # NoForm

\* C14, amended: a room named roomName with an available bed named bedName is
\* resolved and the confirmation gate is reached, also behind a taken bed of
\* the same name, provided the matching rooms and beds have non-empty ids.
C14_ResolvesWhenIdsPresent ==
    (target_room_name # NoneV
       /\ HasAvailable(all_rooms_data, target_room_name, target_bed_name)
       /\ MatchingIdsPresent(all_rooms_data, target_room_name, target_bed_name))
    => /\ outcome # "SelectionNotFoundError"
       /\ post_data # NoForm
       /\ pc = "confirm" \/ confirm # NoneV \/ outcome = "UnknownError"

\* the gate is reached for a bed that stands behind a taken bed of its name
C14_Witness ==
    /\ pc = "confirm"
    /\ Len(all_rooms_data) = 1
    /\ all_rooms_data[1].room # <<>>
    /\ all_rooms_data[1].room[1].bed[1].choose = "cho"
    /\ all_rooms_data[1].room[1].bed[1].name = target_bed_name
    /\ post_data.bedId = "b4"

FormFields(form) ==
    { form.roomId, form.bedId, form.floorId, form.token, form.buildingId,
      form.studentName, form.deptName, form.subId }

\* C15: whenever the reservation POST is issued, its eight fields are present
\* and non-empty; a run in which one would be empty ends before the POST.
C15_FormComplete ==
    /\ \A i \in Issued("save_post") : FormFields(reqs[i].data) \cap {NoneV, ""} = {}
    /\ pc = "confirm" => FormFields(post_data) \cap {NoneV, ""} = {}

\* a POST went out although the catalog also holds a room without an id
C15_Witness ==
    /\ Issued("save_post") # {}
    /\ reqs[Len(reqs)].data.deptName = "D"
    /\ \E j \in 1..Len(FlatRooms(all_rooms_data)) : FlatRooms(all_rooms_data)[j].id = ""

\* the operator was asked for a room and a bed
Prompted ==
    \/ pc \in {"input", "confirm"}
    \/ target_room_name # NoneV
    \/ confirm # NoneV
    \/ outcome \in {"UnknownError", "Cancelled", "SelectionNotFoundError"}

\* C16: the operator is prompted only after the floor list and every per-floor
\* request completed and the catalog holds an available bed; no prompt and no
\* reservation POST while floors are being fetched or without an available bed.
C16_PromptAfterFullCatalog ==
    (Prompted \/ Issued("save_post") # {})
    => /\ Len(reqs) >= 3
       /\ reqs[3].kind = "floor_list_post" /\ ~FailedReply(3)
       /\ Cardinality(Issued("floor_post")) = Len(replies[3].floorSelect)
       /\ \A i \in Issued("floor_post") : replies[i].kind = "object" /\ replies[i].data # "null"
       /\ ~NoBedAvailable(all_rooms_data)
       /\ pc \notin {"rooms", "floor", "display"}

\* prompted after two floors of which the first gave nothing
C16_Witness ==
    /\ pc = "input"
    /\ Len(floor_select_list) = 2
    /\ replies[4].floor = <<>>
    /\ replies[4].status = "fail"

\* C17 as stated: a parseable per-floor response without floor records adds
\* nothing and the loop goes on whatever its status; the no-rooms outcome is
\* reached exactly when all per-floor requests completed and none gave a record.
C17_EmptyFloorContinues ==
    /\ \A i \in Issued("floor_post") :
         (replies[i].kind = "object" /\ replies[i].floor = <<>>)
         => /\ floor_idx > i - 3
            /\ outcome # "Crash"
    /\ outcome = "NoRoomsError"
       <=> /\ pc = "done"
           /\ Issued("floor_post") # {}
           /\ Cardinality(Issued("floor_post")) = Len(floor_select_list)
           /\ floor_idx = Len(floor_select_list) + 1
           /\ all_rooms_data = <<>>

TerminalOutcomes ==
    { "TransportError", "AuthOrPageError", "EmptyIdentity",
      "MissingTokenError", "MissingRoutingIdsError", "EmptyContext",
      "NoFloorsError", "NoRoomsError", "EmptySelection", "ResponseFormatError", "Crash",
      "SelectionNotFoundError", "Cancelled", "Success", "Failure", "UnknownError" }

\* at most n + 4 requests, the four single requests at most once each
RequestBudget ==
    /\ Len(reqs) <= Len(floor_select_list) + 4
    /\ Cardinality(Issued("floor_post")) <= Len(floor_select_list)
    /\ \A k \in {"profile_get", "select_get", "floor_list_post", "save_post"} :
         Cardinality(Issued(k)) <= 1

\* C18: when every request returns and every prompt is answered, the run ends
\* with one terminal outcome that never changes, after at most n + 4 requests,
\* the profile GET, selection-entry GET, floor-list POST and reservation POST
\* being issued at most once each.
C18_Terminates ==
    /\ <>[](pc = "done" /\ outcome \in TerminalOutcomes)
    /\ [](RequestBudget /\ (pc = "done" <=> outcome # "running"))
    /\ [][pc # "done" /\ outcome = "running"]_vars

\* the fairness condition is the weak fairness of Next: the steps of Next are
\* the steps of Step, and Next can be taken exactly where Step can
StepIsNext ==
    /\ [][Step /\ <<pc, reqs>>' # <<pc, reqs>>]_vars
    /\ [](ENABLED <<Step>>_<<pc, reqs>> <=> pc # "done")

\* a run that ended in Success after n + 4 requests
C18_Witness ==
    /\ pc = "done"
    /\ outcome = "Success"
    /\ Len(floor_select_list) = 2
    /\ Len(reqs) = 6
====
